---- MODULE Spec2Model ----
(***************************************************************************)
(* Causal-graph engine of DistCodeP7/Trace_analysis: vector-clock          *)
(* comparison, causal-graph construction from a trace, topological sort    *)
(* and transitive reduction.                                               *)
(*                                                                         *)
(* A VectorClock (Go: map[string]int) is a function whose domain is the    *)
(* set of keys present in the map.  Event ids are 0-based, as in the code; *)
(* slices are TLA+ sequences, so the event with id i is trace[i + 1].      *)
(***************************************************************************)
EXTENDS Integers, Sequences, FiniteSets, TLC

VARIABLES
    pc,        \* position in the pipeline being exercised
    clkA,      \* HappensBefore operands (three clocks a, b, c)
    clkB,
    clkC,
    hbImpl,    \* which HappensBefore implementation produced hbRes
    hbRes,     \* results of the comparisons on (a,b), (b,a), (b,c), (a,c), (a,a)
    trace,     \* the input Trace
    Events,    \* CausalGraph.Events
    Edges,     \* CausalGraph.Edges : id -> list of successor ids
    Root,      \* CausalGraph.Root
    dagNodes,  \* dag.DAG.Nodes : process -> list of events
    dagEdges,  \* dag.DAG.Edges : list of Edge{From, To}
    totalBefore, \* the edge count the tests take before ReduceTransitive
    pre,       \* CheckSafetyProperty: the events satisfying the precondition
    bad,       \* CheckSafetyProperty: the pairs <<i, j>> on which the postcondition is false
    safe,      \* CheckSafetyProperty: the boolean it returned
    evals,     \* CheckSafetyProperty: the postcondition calls <<i, j>>, in order
    output,    \* CheckSafetyProperty: the lines it printed
    processList, \* GenerateAsyncTrace: its argument processes
    numEvents, \* GenerateAsyncTrace: the number of events asked for
    genImpl,   \* GenerateAsyncTrace: which package's generator runs
    iter,      \* GenerateAsyncTrace: iterations of the main loop so far
    processClocks,   \* GenerateAsyncTrace: process -> its clock
    pendingMessages, \* GenerateAsyncTrace: receiver -> Send events not yet received
    messageCounter,  \* GenerateAsyncTrace: the next MessageID
    sender,    \* GenerateAsyncTrace: the process whose Send awaits its receiver
    topoIndeg, \* topoSort: indeg
    topoQ,     \* topoSort: q
    topoOrder  \* topoSort: order

hbVars == <<clkA, clkB, clkC, hbImpl, hbRes>>
graphVars == <<trace, Events, Edges, Root, totalBefore>>
dagVars == <<dagNodes, dagEdges>>
checkVars == <<pre, bad, safe, evals, output>>
genVars == <<processList, numEvents, genImpl, iter, processClocks, pendingMessages,
             messageCounter, sender>>
topoVars == <<topoIndeg, topoQ, topoOrder>>
vars == <<pc, clkA, clkB, clkC, hbImpl, hbRes, trace, Events, Edges, Root, dagNodes, dagEdges,
          totalBefore, checkVars, genVars, topoVars>>

(***************************************************************************)
(* Bounds of the model.                                                    *)
(***************************************************************************)
MaxVal == 2        \* largest counter value of an input clock
MaxEvents == 3     \* longest input trace
MaxNodes == 3      \* largest hand-built graph
MaxGenEvents == 4  \* largest numEvents asked of GenerateAsyncTrace

Procs == {"A", "B"}

(***************************************************************************)
(* Vector clocks.                                                          *)
(***************************************************************************)

\* Go map read: a missing key yields the zero value.
Get(vc, p) == IF p \in DOMAIN vc THEN vc[p] ELSE 0

\* NewVectorClock: an explicit 0 for every process.
NewVectorClock(processes) == [p \in processes |-> 0]

\* The empty map.
EmptyClock == [p \in {} |-> 0]

\* All clocks over Procs with counters 0..MaxVal; a key may be absent.
ClockSet == UNION {[D -> 0..MaxVal] : D \in SUBSET Procs}

\* Clocks holding every process key, as NewVectorClock builds them.
FullClockSet == [Procs -> 0..MaxVal]

\* The loop of types.VectorClock.HappensBefore over the keys of vc still to
\* visit.  Go's map iteration order is unspecified; the result does not
\* depend on it, because a `break` forces the result to false.
RECURSIVE HBTypesLoop(_, _, _, _, _)
HBTypesLoop(keys, vc, other, lessOrEqual, strictlyLess) ==
    IF keys = {}
    THEN lessOrEqual /\ strictlyLess
    ELSE LET p == CHOOSE k \in keys : TRUE
         IN  IF vc[p] > Get(other, p)
             THEN FALSE /\ strictlyLess        \* lessOrEqual = false; break
             ELSE HBTypesLoop(keys \ {p}, vc, other, lessOrEqual,
                              strictlyLess \/ (vc[p] < Get(other, p)))

\* Mutant: the strict test written as <=.
HappensBeforeTypesNonStrict(vc, other) ==
    /\ \A p \in DOMAIN vc : vc[p] <= Get(other, p)
    /\ \E p \in DOMAIN vc : vc[p] <= Get(other, p)

\* Mutant: a coordinate of other that vc lacks counts as strictly less.
HappensBeforeTypesExtraKeys(vc, other) ==
    /\ \A p \in DOMAIN vc : vc[p] <= Get(other, p)
    /\ \E p \in (DOMAIN vc) \cup (DOMAIN other) : Get(vc, p) < Get(other, p)

\* types.VectorClock.HappensBefore: iterates the keys of vc only.
HappensBeforeTypes(vc, other) ==
    HBTypesLoop(DOMAIN vc, vc, other, TRUE, FALSE)

\* The loop of the main-package HappensBefore over the union of the keys.
RECURSIVE HBMainLoop(_, _, _, _, _)
HBMainLoop(keys, vc, other, lessOrEqual, strictlyLess) ==
    IF keys = {}
    THEN lessOrEqual /\ strictlyLess
    ELSE LET p  == CHOOSE k \in keys : TRUE
             v1 == Get(vc, p)
             v2 == Get(other, p)
         IN  IF v1 > v2
             THEN FALSE /\ strictlyLess        \* lessOrEqual = false; break
             ELSE HBMainLoop(keys \ {p}, vc, other, lessOrEqual,
                             strictlyLess \/ (v1 < v2))

\* Mutant: the lessOrEqual flag is dropped from the result.
HappensBeforeOnlyStrict(vc, other) ==
    \E p \in (DOMAIN vc) \cup (DOMAIN other) : Get(vc, p) < Get(other, p)

\* main-package VectorClock.HappensBefore: iterates the union of the keys.
HappensBefore(vc, other) ==
    HBMainLoop((DOMAIN vc) \cup (DOMAIN other), vc, other, TRUE, FALSE)

\* VectorClock.LessOrEqual of the earlier main-package variant.
LessOrEqual(vc, other) ==
    \A k \in DOMAIN vc : ~(vc[k] > Get(other, k))

\* The edge test of BuildCausalGraph.
StrictlyBefore(c1, c2) == LessOrEqual(c1, c2) /\ ~LessOrEqual(c2, c1)

(***************************************************************************)
(* Comparing clocks: the operations of the HappensBefore specification.    *)
(***************************************************************************)
NoResult == [ab |-> FALSE, ba |-> FALSE, bc |-> FALSE, ac |-> FALSE, aa |-> FALSE]

CompareTypes ==
    /\ pc = "hb_input"
    /\ pc' = "hb_done"
    /\ hbImpl' = "types"
    /\ hbRes' = [ab |-> HappensBeforeTypes(clkA, clkB),
                 ba |-> HappensBeforeTypes(clkB, clkA),
                 bc |-> HappensBeforeTypes(clkB, clkC),
                 ac |-> HappensBeforeTypes(clkA, clkC),
                 aa |-> HappensBeforeTypes(clkA, clkA)]
    /\ UNCHANGED <<clkA, clkB, clkC, graphVars, dagVars, checkVars, genVars, topoVars>>

CompareMain ==
    /\ pc = "hb_input"
    /\ pc' = "hb_done"
    /\ hbImpl' = "main"
    /\ hbRes' = [ab |-> HappensBefore(clkA, clkB),
                 ba |-> HappensBefore(clkB, clkA),
                 bc |-> HappensBefore(clkB, clkC),
                 ac |-> HappensBefore(clkA, clkC),
                 aa |-> HappensBefore(clkA, clkA)]
    /\ UNCHANGED <<clkA, clkB, clkC, graphVars, dagVars, checkVars, genVars, topoVars>>

NoGraph ==
    /\ trace = <<>>
    /\ Events = <<>>
    /\ Edges = <<>>
    /\ Root = <<>>
    /\ totalBefore = 0
    /\ dagNodes = <<>>
    /\ dagEdges = <<>>

\* No safety check has run.
NoCheck ==
    /\ pre = {}
    /\ bad = {}
    /\ safe = TRUE
    /\ evals = <<>>
    /\ output = <<>>

\* No topoSort is running.
NoTopo ==
    /\ topoIndeg = <<>>
    /\ topoQ = <<>>
    /\ topoOrder = <<>>

\* No generator is running.
NoGen ==
    /\ processList = <<>>
    /\ numEvents = 0
    /\ genImpl = "none"
    /\ iter = 0
    /\ processClocks = <<>>
    /\ pendingMessages = <<>>
    /\ messageCounter = 0
    /\ sender = "none"

NoClocks ==
    /\ clkA = EmptyClock
    /\ clkB = EmptyClock
    /\ clkC = EmptyClock
    /\ hbImpl = "none"
    /\ hbRes = NoResult

InitHB ==
    /\ pc = "hb_input"
    /\ clkA \in ClockSet
    /\ clkB \in ClockSet
    /\ clkC \in ClockSet
    /\ hbImpl = "none"
    /\ hbRes = NoResult
    /\ NoGraph
    /\ NoCheck
    /\ NoTopo
    /\ NoGen

NextHB == CompareTypes \/ CompareMain

SpecHB == InitHB /\ [][NextHB]_vars

(***************************************************************************)
(* Events, traces and the causal graph.                                    *)
(***************************************************************************)
Ids(n) == 0..(n - 1)

\* The ids 0, 1, ..., n-1 in ascending order.
IdSeq(n) == [k \in 1..n |-> k - 1]

\* The events of an input trace.  Their clocks hold every process key, as
\* the clocks made by NewVectorClock(processes) and the literals of the tests
\* do.  The graph builders read only the VClock of an event (BuildDAG also
\* its Process); the other fields are carried along unchanged.
EventSet == {[Type |-> "SEND", Process |-> "A", VClock |-> c] : c \in FullClockSet}

TraceSet == UNION {[1..n -> EventSet] : n \in 0..MaxEvents}

\* Mutant: only the pairs (i, j) with i < j are tested in the forward direction.
RECURSIVE NewCausalGraphForwardLoop(_, _, _, _)
NewCausalGraphForwardLoop(tr, i, j, st) ==
    IF i >= Len(tr) THEN st
    ELSE IF j >= Len(tr) THEN NewCausalGraphForwardLoop(tr, i + 1, i + 2, st)
    ELSE IF HappensBefore(tr[i + 1].VClock, tr[j + 1].VClock)
         THEN NewCausalGraphForwardLoop(tr, i, j + 1,
                  [Edges    |-> [st.Edges EXCEPT ![i] = Append(@, j)],
                   inDegree |-> [st.inDegree EXCEPT ![j] = @ + 1]])
         ELSE NewCausalGraphForwardLoop(tr, i, j + 1, st)

\* The double loop of NewCausalGraph, at the pair (i, j); st holds g.Edges
\* and inDegree.
RECURSIVE NewCausalGraphLoop(_, _, _, _)
NewCausalGraphLoop(tr, i, j, st) ==
    IF i >= Len(tr) THEN st
    ELSE IF j >= Len(tr) THEN NewCausalGraphLoop(tr, i + 1, i + 2, st)
    ELSE IF HappensBefore(tr[i + 1].VClock, tr[j + 1].VClock)
         THEN NewCausalGraphLoop(tr, i, j + 1,
                  [Edges    |-> [st.Edges EXCEPT ![i] = Append(@, j)],
                   inDegree |-> [st.inDegree EXCEPT ![j] = @ + 1]])
    ELSE IF HappensBefore(tr[j + 1].VClock, tr[i + 1].VClock)
         THEN NewCausalGraphLoop(tr, i, j + 1,
                  [Edges    |-> [st.Edges EXCEPT ![j] = Append(@, i)],
                   inDegree |-> [st.inDegree EXCEPT ![i] = @ + 1]])
    ELSE NewCausalGraphLoop(tr, i, j + 1, st)

\* The state of NewCausalGraph before its double loop.
EmptyGraphState(n) ==
    [Edges |-> [i \in Ids(n) |-> <<>>], inDegree |-> [i \in Ids(n) |-> 0]]

\* The graph a loop result st stands for.
GraphOf(tr, st) ==
    [Events |-> tr,
     Edges  |-> st.Edges,
     Root   |-> SelectSeq(IdSeq(Len(tr)), LAMBDA i : st.inDegree[i] = 0)]

NewCausalGraphForward(tr) ==
    GraphOf(tr, NewCausalGraphForwardLoop(tr, 0, 1, EmptyGraphState(Len(tr))))

\* NewCausalGraph(trace).
NewCausalGraph(tr) ==
    GraphOf(tr, NewCausalGraphLoop(tr, 0, 1, EmptyGraphState(Len(tr))))

(***************************************************************************)
(* Topological sort (Kahn) and transitive reduction.                       *)
(***************************************************************************)

\* indeg after the first loop of topoSort: the number of occurrences of
\* each id in the adjacency lists.
InDegrees(E) ==
    [v \in DOMAIN E |->
        Cardinality({p \in UNION {{<<u, k>> : k \in 1..Len(E[u])} : u \in DOMAIN E} :
                        E[p[1]][p[2]] = v})]

\* Mutant: a successor is enqueued at every decrement of its in-degree.
RECURSIVE KahnInnerAlwaysEnqueue(_, _, _, _)
KahnInnerAlwaysEnqueue(es, k, indeg, q) ==
    IF k > Len(es) THEN [indeg |-> indeg, q |-> q]
    ELSE LET v == es[k]
             d == indeg[v] - 1
         IN  KahnInnerAlwaysEnqueue(es, k + 1, [indeg EXCEPT ![v] = d], Append(q, v))

\* The inner loop of topoSort over es = g.Edges[u], from position k.
RECURSIVE KahnInner(_, _, _, _)
KahnInner(es, k, indeg, q) ==
    IF k > Len(es) THEN [indeg |-> indeg, q |-> q]
    ELSE LET v == es[k]
             d == indeg[v] - 1
         IN  KahnInner(es, k + 1, [indeg EXCEPT ![v] = d],
                       IF d = 0 THEN Append(q, v) ELSE q)

\* The main loop of topoSort.
RECURSIVE KahnLoop(_, _, _, _)
KahnLoop(E, q, order, indeg) ==
    IF q = <<>> THEN order
    ELSE LET u == Head(q)
             r == KahnInner(E[u], 1, indeg, Tail(q))
         IN  KahnLoop(E, r.q, Append(order, u), r.indeg)

\* topoSort from the initial queue q0.
topoSortFrom(E, q0) == KahnLoop(E, q0, <<>>, InDegrees(E))

\* The ids of in-degree 0, ascending: the initial queue when g.Events is a
\* slice.
ZeroInDegree(ev, E) ==
    SelectSeq(IdSeq(Len(ev)), LAMBDA i : InDegrees(E)[i] = 0)

\* CausalGraph.topoSort (g.Events a slice).
topoSort(ev, E) == topoSortFrom(E, ZeroInDegree(ev, E))

\* The inner loop of ReduceTransitive over es = g.Edges[u], from position k.
RECURSIVE ReduceInner(_, _, _, _, _)
ReduceInner(es, k, u, reachable, newEdges) ==
    IF k > Len(es) THEN [reachable |-> reachable, newEdges |-> newEdges]
    ELSE LET v == es[k]
         IN  IF v \in reachable[u]
             THEN ReduceInner(es, k + 1, u, reachable, newEdges)
             ELSE ReduceInner(es, k + 1, u,
                      [reachable EXCEPT ![u] = @ \cup reachable[v] \cup {v}],
                      Append(newEdges, v))

\* The outer loop of ReduceTransitive, at position i of topo (1-based).
RECURSIVE ReduceLoop(_, _, _, _)
ReduceLoop(topo, i, E, reachable) ==
    IF i = 0 THEN E
    ELSE LET u == topo[i]
             r == ReduceInner(E[u], 1, u, reachable, <<>>)
         IN  ReduceLoop(topo, i - 1, [E EXCEPT ![u] = r.newEdges], r.reachable)

\* Mutant: reachable[u] starts out holding the direct successors of u.
RECURSIVE ReduceLoopSeeded(_, _, _, _)
ReduceLoopSeeded(topo, i, E, reachable) ==
    IF i = 0 THEN E
    ELSE LET u == topo[i]
             seeded == [reachable EXCEPT ![u] = {E[u][k] : k \in 1..Len(E[u])}]
             r == ReduceInner(E[u], 1, u, seeded, <<>>)
         IN  ReduceLoopSeeded(topo, i - 1, [E EXCEPT ![u] = r.newEdges], r.reachable)

ReduceTransitiveSeeded(topo, E) ==
    ReduceLoopSeeded(topo, Len(topo), E, [i \in DOMAIN E |-> {}])

\* Mutant: the nodes are visited in topological order, not in reverse.
RECURSIVE ReduceLoopForward(_, _, _, _)
ReduceLoopForward(topo, i, E, reachable) ==
    IF i > Len(topo) THEN E
    ELSE LET u == topo[i]
             r == ReduceInner(E[u], 1, u, reachable, <<>>)
         IN  ReduceLoopForward(topo, i + 1, [E EXCEPT ![u] = r.newEdges], r.reachable)

ReduceTransitiveForward(topo, E) ==
    ReduceLoopForward(topo, 1, E, [i \in DOMAIN E |-> {}])

\* Mutant: reachable[v] is not merged into reachable[u].
RECURSIVE ReduceInnerNoMerge(_, _, _, _, _)
ReduceInnerNoMerge(es, k, u, reachable, newEdges) ==
    IF k > Len(es) THEN [reachable |-> reachable, newEdges |-> newEdges]
    ELSE LET v == es[k]
         IN  IF v \in reachable[u]
             THEN ReduceInnerNoMerge(es, k + 1, u, reachable, newEdges)
             ELSE ReduceInnerNoMerge(es, k + 1, u,
                      [reachable EXCEPT ![u] = @ \cup {v}],
                      Append(newEdges, v))

RECURSIVE ReduceLoopNoMerge(_, _, _, _)
ReduceLoopNoMerge(topo, i, E, reachable) ==
    IF i = 0 THEN E
    ELSE LET u == topo[i]
             r == ReduceInnerNoMerge(E[u], 1, u, reachable, <<>>)
         IN  ReduceLoopNoMerge(topo, i - 1, [E EXCEPT ![u] = r.newEdges], r.reachable)

ReduceTransitiveNoMerge(topo, E) ==
    ReduceLoopNoMerge(topo, Len(topo), E, [i \in DOMAIN E |-> {}])

\* Mutant: newEdges is built by prepending, so a kept list comes out reversed.
RECURSIVE ReduceInnerPrepend(_, _, _, _, _)
ReduceInnerPrepend(es, k, u, reachable, newEdges) ==
    IF k > Len(es) THEN [reachable |-> reachable, newEdges |-> newEdges]
    ELSE LET v == es[k]
         IN  IF v \in reachable[u]
             THEN ReduceInnerPrepend(es, k + 1, u, reachable, newEdges)
             ELSE ReduceInnerPrepend(es, k + 1, u,
                      [reachable EXCEPT ![u] = @ \cup reachable[v] \cup {v}],
                      <<v>> \o newEdges)

RECURSIVE ReduceLoopPrepend(_, _, _, _)
ReduceLoopPrepend(topo, i, E, reachable) ==
    IF i = 0 THEN E
    ELSE LET u == topo[i]
             r == ReduceInnerPrepend(E[u], 1, u, reachable, <<>>)
         IN  ReduceLoopPrepend(topo, i - 1, [E EXCEPT ![u] = r.newEdges], r.reachable)

ReduceTransitivePrepend(topo, E) ==
    ReduceLoopPrepend(topo, Len(topo), E, [i \in DOMAIN E |-> {}])

\* ReduceTransitive, given the order topoSort returned.
ReduceTransitiveWith(topo, E) ==
    ReduceLoop(topo, Len(topo), E, [i \in DOMAIN E |-> {}])

(***************************************************************************)
(* The pipeline NewCausalGraph ; ReduceTransitive.                         *)
(***************************************************************************)
\* The sum of len(es) over g.Edges, as the tests count it.
RECURSIVE SumLen(_, _)
SumLen(E, ids) ==
    IF ids = {} THEN 0
    ELSE LET u == CHOOSE x \in ids : TRUE
         IN  Len(E[u]) + SumLen(E, ids \ {u})

TotalEdges(E) == SumLen(E, DOMAIN E)

\* sumVC: the sum of the counters of a clock.
RECURSIVE SumOver(_, _)
SumOver(vc, keys) ==
    IF keys = {} THEN 0
    ELSE LET p == CHOOSE x \in keys : TRUE
         IN  vc[p] + SumOver(vc, keys \ {p})

sumVC(vc) == SumOver(vc, DOMAIN vc)

\* The order of Go's string comparison on the process names in use.
ProcRank(p) == CASE p = "A" -> 0 [] p = "B" -> 1 [] p = "C" -> 2 [] OTHER -> 3

\* The comparison function of sortTraceByVClock: negative, zero or positive.
CompareEvents(e1, e2) ==
    LET sum1 == sumVC(e1.VClock)
        sum2 == sumVC(e2.VClock)
    IN  IF sum1 # sum2 THEN sum1 - sum2
        ELSE IF ProcRank(e1.Process) < ProcRank(e2.Process) THEN -1
        ELSE IF ProcRank(e1.Process) > ProcRank(e2.Process) THEN 1
        ELSE 0

\* Stable insertion of e into the sorted list s: after every element that
\* does not compare greater.
RECURSIVE InsertStable(_, _)
InsertStable(s, e) ==
    IF s = <<>> THEN <<e>>
    ELSE IF CompareEvents(s[Len(s)], e) <= 0 THEN Append(s, e)
    ELSE Append(InsertStable(SubSeq(s, 1, Len(s) - 1), e), s[Len(s)])

\* slices.SortStableFunc on the first k elements of tr.
RECURSIVE SortStablePrefix(_, _)
SortStablePrefix(tr, k) ==
    IF k = 0 THEN <<>> ELSE InsertStable(SortStablePrefix(tr, k - 1), tr[k])

\* sortTraceByVClock(trace)
sortTraceByVClock(tr) == SortStablePrefix(tr, Len(tr))

\* trace = sortTraceByVClock(trace), as main and Test_Pen do before building.
Sort ==
    /\ pc = "trace"
    /\ pc' = "sorted"
    /\ trace' = sortTraceByVClock(trace)
    /\ UNCHANGED <<Events, Edges, Root, totalBefore, hbVars, dagVars, checkVars, genVars, topoVars>>

\* g := NewCausalGraph(trace), and the count of its edges.
Build ==
    /\ pc \in {"trace", "sorted"}
    /\ pc' = "built"
    /\ LET g == NewCausalGraph(trace)
       IN  /\ Events' = g.Events
           /\ Edges' = g.Edges
           /\ Root' = g.Root
           /\ totalBefore' = TotalEdges(g.Edges)
    /\ UNCHANGED <<trace, hbVars, dagVars, checkVars, genVars, topoVars>>

\* g.ReduceTransitive().
Reduce ==
    /\ pc = "built"
    /\ pc' = "reduced"
    /\ Edges' = ReduceTransitiveWith(topoSort(Events, Edges), Edges)
    /\ UNCHANGED <<trace, Events, Root, totalBefore, hbVars, dagVars, checkVars, genVars, topoVars>>

InitGraph ==
    /\ pc = "trace"
    /\ trace \in TraceSet
    /\ Events = <<>>
    /\ Edges = <<>>
    /\ Root = <<>>
    /\ totalBefore = 0
    /\ dagNodes = <<>>
    /\ dagEdges = <<>>
    /\ NoClocks
    /\ NoCheck
    /\ NoTopo
    /\ NoGen

NextGraph == Sort \/ Build \/ Reduce

SpecGraph == InitGraph /\ [][NextGraph]_vars

(***************************************************************************)
(* The earlier builders: BuildCausalGraph (main package) and dag.BuildDAG, *)
(* and the earlier ReduceTransitive, whose topoSort ranges over a map.     *)
(* Event.ID is the event's position in the trace.                          *)
(***************************************************************************)

\* The double loop of BuildCausalGraph, at the pair (i, j).
RECURSIVE BuildCausalGraphLoop(_, _, _, _)
BuildCausalGraphLoop(tr, i, j, E) ==
    IF i >= Len(tr) THEN E
    ELSE IF j >= Len(tr) THEN BuildCausalGraphLoop(tr, i + 1, i + 2, E)
    ELSE IF StrictlyBefore(tr[i + 1].VClock, tr[j + 1].VClock)
         THEN BuildCausalGraphLoop(tr, i, j + 1, [E EXCEPT ![i] = Append(@, j)])
         ELSE BuildCausalGraphLoop(tr, i, j + 1, E)

\* BuildCausalGraph(trace).Edges
BuildCausalGraphEdges(tr) ==
    BuildCausalGraphLoop(tr, 0, 1, [i \in Ids(Len(tr)) |-> <<>>])

\* The double loop of dag.BuildDAG, at the pair (i, j).
RECURSIVE BuildDAGLoop(_, _, _, _)
BuildDAGLoop(tr, i, j, edges) ==
    IF i >= Len(tr) THEN edges
    ELSE IF j >= Len(tr) THEN BuildDAGLoop(tr, i + 1, i + 2, edges)
    ELSE IF HappensBeforeTypes(tr[i + 1].VClock, tr[j + 1].VClock)
         THEN BuildDAGLoop(tr, i, j + 1,
                           Append(edges, [From |-> tr[i + 1], To |-> tr[j + 1]]))
         ELSE BuildDAGLoop(tr, i, j + 1, edges)

\* dag.BuildDAG(trace)
BuildDAGOf(tr) ==
    [Nodes |-> [p \in {tr[k].Process : k \in 1..Len(tr)} |->
                   SelectSeq(tr, LAMBDA e : e.Process = p)],
     Edges |-> BuildDAGLoop(tr, 0, 1, <<>>)]

\* The orders in which a range over a Go map may yield the ids in S.
MapOrders(S) ==
    {q \in [1..Cardinality(S) -> S] : \A x \in S : \E k \in 1..Cardinality(S) : q[k] = x}

\* The ids of in-degree 0.
ZeroInDegreeSet(E) == {i \in DOMAIN E : InDegrees(E)[i] = 0}

BuildCausalGraph ==
    /\ pc = "old_trace"
    /\ pc' = "old_built"
    /\ Events' = trace
    /\ Edges' = BuildCausalGraphEdges(trace)
    /\ totalBefore' = TotalEdges(BuildCausalGraphEdges(trace))
    /\ UNCHANGED <<trace, Root, hbVars, dagVars, checkVars, genVars, topoVars>>

\* The earlier ReduceTransitive: the initial queue of its topoSort holds the
\* ids of in-degree 0 in map-iteration order.
ReduceOld ==
    /\ pc = "old_built"
    /\ pc' = "old_reduced"
    /\ \E q0 \in MapOrders(ZeroInDegreeSet(Edges)) :
           Edges' = ReduceTransitiveWith(topoSortFrom(Edges, q0), Edges)
    /\ UNCHANGED <<trace, Events, Root, totalBefore, hbVars, dagVars, checkVars, genVars, topoVars>>

BuildDAG ==
    /\ pc = "old_trace"
    /\ pc' = "dag_built"
    /\ dagNodes' = BuildDAGOf(trace).Nodes
    /\ dagEdges' = BuildDAGOf(trace).Edges
    /\ UNCHANGED <<graphVars, hbVars, checkVars, genVars, topoVars>>

InitOld ==
    /\ pc = "old_trace"
    /\ trace \in TraceSet
    /\ Events = <<>>
    /\ Edges = <<>>
    /\ Root = <<>>
    /\ totalBefore = 0
    /\ dagNodes = <<>>
    /\ dagEdges = <<>>
    /\ NoClocks
    /\ NoCheck
    /\ NoTopo
    /\ NoGen

NextOld == BuildCausalGraph \/ ReduceOld \/ BuildDAG

SpecOld == InitOld /\ [][NextOld]_vars

(***************************************************************************)
(* ReduceTransitive on any acyclic graph: the adjacency lists are ordered  *)
(* sets of successor ids in any order.                                     *)
(***************************************************************************)

\* The lists of distinct elements of S.
InjectiveSeqs(S) ==
    {q \in UNION {[1..k -> S] : k \in 0..Cardinality(S)} :
        \A a, b \in DOMAIN q : a # b => q[a] # q[b]}

\* The list q over 0..n-2 read as a list of ids other than u.
SkipSelf(q, u) == [k \in DOMAIN q |-> IF q[k] >= u THEN q[k] + 1 ELSE q[k]]

\* The edge maps over n nodes without self-edges.
EdgeMaps(n) ==
    {[u \in Ids(n) |-> SkipSelf(raw[u], u)] : raw \in [Ids(n) -> InjectiveSeqs(Ids(n - 1))]}

\* The successors of u.
Succ(E, u) == {E[u][k] : k \in 1..Len(E[u])}

RECURSIVE Closure(_, _, _)
Closure(E, todo, seen) ==
    IF todo = {} THEN seen
    ELSE LET x == CHOOSE t \in todo : TRUE
         IN  Closure(E, (todo \cup Succ(E, x)) \ (seen \cup {x}), seen \cup {x})

\* The ids reachable from u along one or more edges.
ReachFrom(E, u) == Closure(E, Succ(E, u), {})

Acyclic(E) == \A u \in DOMAIN E : u \notin ReachFrom(E, u)

\* An event of a hand-built graph; the reducer does not read it.
AnEvent == [Type |-> "SEND", Process |-> "A", VClock |-> NewVectorClock(Procs)]

InitReduce ==
    /\ pc \in {"built", "old_built"}
    /\ \E n \in 0..MaxNodes :
           /\ Events = [k \in 1..n |-> AnEvent]
           /\ Edges \in {E \in EdgeMaps(n) : Acyclic(E)}
    /\ trace = Events
    /\ Root = (IF pc = "built" THEN ZeroInDegree(Events, Edges) ELSE <<>>)
    /\ totalBefore = TotalEdges(Edges)
    /\ dagNodes = <<>>
    /\ dagEdges = <<>>
    /\ NoClocks
    /\ NoCheck
    /\ NoTopo
    /\ NoGen

\* A second g.ReduceTransitive() on the reduced graph.
ReduceAgain ==
    /\ pc = "reduced"
    /\ pc' = "reduced_twice"
    /\ Edges' = ReduceTransitiveWith(topoSort(Events, Edges), Edges)
    /\ UNCHANGED <<trace, Events, Root, totalBefore, hbVars, dagVars, checkVars, genVars, topoVars>>

\* A second run of the earlier ReduceTransitive.
ReduceOldAgain ==
    /\ pc = "old_reduced"
    /\ pc' = "old_reduced_twice"
    /\ \E q0 \in MapOrders(ZeroInDegreeSet(Edges)) :
           Edges' = ReduceTransitiveWith(topoSortFrom(Edges, q0), Edges)
    /\ UNCHANGED <<trace, Events, Root, totalBefore, hbVars, dagVars, checkVars, genVars, topoVars>>

NextReduce == Reduce \/ ReduceOld \/ ReduceAgain \/ ReduceOldAgain

SpecReduce == InitReduce /\ [][NextReduce]_vars

(***************************************************************************)
(* topoSort step by step: one step fills indeg and q, one step is one      *)
(* iteration of the main loop, one step returns order.  pc "topo" is the   *)
(* topoSort whose g.Events is a slice, "old_topo" the earlier one whose    *)
(* g.Events is a map.                                                      *)
(***************************************************************************)

\* The two loops before the main loop.
TopoStart ==
    /\ pc \in {"topo", "old_topo"}
    /\ pc' = (IF pc = "topo" THEN "topo_loop" ELSE "old_topo_loop")
    /\ topoIndeg' = InDegrees(Edges)
    /\ IF pc = "topo"
       THEN topoQ' = ZeroInDegree(Events, Edges)
       ELSE topoQ' \in MapOrders(ZeroInDegreeSet(Edges))
    /\ topoOrder' = <<>>
    /\ UNCHANGED <<graphVars, hbVars, dagVars, checkVars, genVars>>

\* One iteration of "for len(q) > 0".
TopoStep ==
    /\ pc \in {"topo_loop", "old_topo_loop"}
    /\ topoQ # <<>>
    /\ LET u == Head(topoQ)
           r == KahnInner(Edges[u], 1, topoIndeg, Tail(topoQ))
       IN  /\ topoOrder' = Append(topoOrder, u)
           /\ topoIndeg' = r.indeg
           /\ topoQ' = r.q
    /\ UNCHANGED <<pc, graphVars, hbVars, dagVars, checkVars, genVars>>

\* return order
TopoReturn ==
    /\ pc \in {"topo_loop", "old_topo_loop"}
    /\ topoQ = <<>>
    /\ pc' = (IF pc = "topo_loop" THEN "topo_done" ELSE "old_topo_done")
    /\ UNCHANGED <<graphVars, hbVars, dagVars, checkVars, genVars, topoVars>>

InitTopo ==
    /\ pc \in {"topo", "old_topo"}
    /\ \E n \in 0..MaxNodes :
           /\ Events = [k \in 1..n |-> AnEvent]
           /\ Edges \in {E \in EdgeMaps(n) : Acyclic(E)}
    /\ trace = Events
    /\ Root = (IF pc = "topo" THEN ZeroInDegree(Events, Edges) ELSE <<>>)
    /\ totalBefore = TotalEdges(Edges)
    /\ dagNodes = <<>>
    /\ dagEdges = <<>>
    /\ NoClocks
    /\ NoCheck
    /\ NoTopo
    /\ NoGen

NextTopo == TopoStart \/ TopoStep \/ TopoReturn

SpecTopo == InitTopo /\ [][NextTopo]_vars

(***************************************************************************)
(* ReduceTransitive on a graph whose Edges were set by hand and may hold a *)
(* cycle (Edges is an exported field).                                     *)
(***************************************************************************)
InitCyclic ==
    /\ pc = "built"
    /\ \E n \in 0..MaxNodes :
           /\ Events = [k \in 1..n |-> AnEvent]
           /\ Edges \in EdgeMaps(n)
    /\ trace = Events
    /\ Root = ZeroInDegree(Events, Edges)
    /\ totalBefore = TotalEdges(Edges)
    /\ dagNodes = <<>>
    /\ dagEdges = <<>>
    /\ NoClocks
    /\ NoCheck
    /\ NoTopo
    /\ NoGen

NextCyclic == Reduce

SpecCyclic == InitCyclic /\ [][NextCyclic]_vars

(***************************************************************************)
(* CheckSafetyProperty and verifyFuture.  The precondition is the set of   *)
(* events on which it returns true; the postcondition is the set of pairs  *)
(* <<triggerID, futureID>> on which it returns false.  A traversal state   *)
(* st holds the result so far (ok), the visited set, the postcondition     *)
(* calls made and the lines printed.                                       *)
(***************************************************************************)
RECURSIVE verifyFuture(_, _, _, _, _)
RECURSIVE VerifyLoop(_, _, _, _, _, _)

\* Mutant: the successors of u are not visited.
verifyFutureDirectOnly(E, badPairs, i, u, st) ==
    IF u \in st.visited THEN st
    ELSE LET st1 == [st EXCEPT !.visited = @ \cup {u},
                               !.evals = Append(@, <<i, u>>)]
         IN  IF <<i, u>> \in badPairs
             THEN [st1 EXCEPT !.ok = FALSE,
                              !.output = Append(@, [line |-> "PostconditionFailed", id |-> u])]
             ELSE st1

\* g.verifyFuture(u, visited, specificPostcondition) for the trigger i.
verifyFuture(E, badPairs, i, u, st) ==
    IF u \in st.visited THEN st
    ELSE LET st1 == [st EXCEPT !.visited = @ \cup {u},
                               !.evals = Append(@, <<i, u>>)]
         IN  IF <<i, u>> \in badPairs
             THEN [st1 EXCEPT !.ok = FALSE,
                              !.output = Append(@, [line |-> "PostconditionFailed", id |-> u])]
             ELSE VerifyLoop(E, badPairs, i, E[u], 1, st1)

\* The loop over a successor list es from position k, left at the first
\* verifyFuture that returns false.
VerifyLoop(E, badPairs, i, es, k, st) ==
    IF k > Len(es) THEN st
    ELSE LET r == verifyFuture(E, badPairs, i, es[k], st)
         IN  IF ~r.ok THEN r ELSE VerifyLoop(E, badPairs, i, es, k + 1, r)

\* Mutant: the visited set is not reset for a new trigger.
RECURSIVE CheckLoopSharedVisited(_, _, _, _, _, _)
CheckLoopSharedVisited(ev, E, preSet, badPairs, i, st) ==
    IF i >= Len(ev) THEN st
    ELSE IF ev[i + 1] \in preSet
         THEN LET r == VerifyLoop(E, badPairs, i, E[i], 1, st)
              IN  IF ~r.ok
                  THEN [r EXCEPT !.output =
                                     Append(@, [line |-> "SafetyPropertyViolated", id |-> i])]
                  ELSE CheckLoopSharedVisited(ev, E, preSet, badPairs, i + 1, r)
         ELSE CheckLoopSharedVisited(ev, E, preSet, badPairs, i + 1, st)

\* Mutant: the traversal starts at the trigger itself, not at its successors.
RECURSIVE CheckLoopFromTrigger(_, _, _, _, _, _)
CheckLoopFromTrigger(ev, E, preSet, badPairs, i, st) ==
    IF i >= Len(ev) THEN st
    ELSE IF ev[i + 1] \in preSet
         THEN LET r == VerifyLoop(E, badPairs, i, <<i>>, 1, [st EXCEPT !.visited = {}])
              IN  IF ~r.ok
                  THEN [r EXCEPT !.output =
                                     Append(@, [line |-> "SafetyPropertyViolated", id |-> i])]
                  ELSE CheckLoopFromTrigger(ev, E, preSet, badPairs, i + 1, r)
         ELSE CheckLoopFromTrigger(ev, E, preSet, badPairs, i + 1, st)

\* Mutant: a failed trigger is reported but the loop goes on to the next one.
RECURSIVE CheckLoopNoReturn(_, _, _, _, _, _)
CheckLoopNoReturn(ev, E, preSet, badPairs, i, st) ==
    IF i >= Len(ev) THEN st
    ELSE IF ev[i + 1] \in preSet
         THEN LET r == VerifyLoop(E, badPairs, i, E[i], 1, [st EXCEPT !.visited = {}])
              IN  IF ~r.ok
                  THEN CheckLoopNoReturn(ev, E, preSet, badPairs, i + 1,
                           [r EXCEPT !.output =
                                Append(@, [line |-> "SafetyPropertyViolated", id |-> i])])
                  ELSE CheckLoopNoReturn(ev, E, preSet, badPairs, i + 1, r)
         ELSE CheckLoopNoReturn(ev, E, preSet, badPairs, i + 1, st)

\* The loop of CheckSafetyProperty over g.Events, at the event with id i.
RECURSIVE CheckLoop(_, _, _, _, _, _)
CheckLoop(ev, E, preSet, badPairs, i, st) ==
    IF i >= Len(ev) THEN st
    ELSE IF ev[i + 1] \in preSet
         THEN LET r == VerifyLoop(E, badPairs, i, E[i], 1, [st EXCEPT !.visited = {}])
              IN  IF ~r.ok
                  THEN [r EXCEPT !.output =
                                     Append(@, [line |-> "SafetyPropertyViolated", id |-> i])]
                  ELSE CheckLoop(ev, E, preSet, badPairs, i + 1, r)
         ELSE CheckLoop(ev, E, preSet, badPairs, i + 1, st)

\* The traversal state on entry to CheckSafetyProperty.
CheckStart == [ok |-> TRUE, visited |-> {}, evals |-> <<>>, output |-> <<>>]

CheckSafetyPropertySharedVisited(ev, E, preSet, badPairs) ==
    CheckLoopSharedVisited(ev, E, preSet, badPairs, 0, CheckStart)

CheckSafetyPropertyFromTrigger(ev, E, preSet, badPairs) ==
    CheckLoopFromTrigger(ev, E, preSet, badPairs, 0, CheckStart)

CheckSafetyPropertyNoReturn(ev, E, preSet, badPairs) ==
    CheckLoopNoReturn(ev, E, preSet, badPairs, 0, CheckStart)

\* g.CheckSafetyProperty(precondition, postcondition)
CheckSafetyProperty(ev, E, preSet, badPairs) ==
    CheckLoop(ev, E, preSet, badPairs, 0, CheckStart)

\* The event with id k of a hand-built graph handed to the checker: the
\* events differ, so a precondition can tell any of them apart.
NodeEvent(k) ==
    [Type |-> "SEND", Process |-> "A",
     VClock |-> [p \in Procs |-> IF p = "A" THEN k + 1 ELSE 0]]

\* Postconditions on a graph of n events that are false on at most one pair
\* <<triggerID, futureID>>.
SinglePairPostconditions(n) == {{}} \cup {{<<i, j>>} : i, j \in Ids(n)}

\* Postconditions that are false on a set of future events whatever the
\* trigger.
FutureSetPostconditions(n) == {Ids(n) \X F : F \in SUBSET Ids(n)}

\* The pairs <<precondition, postcondition>> tried on the events ev: any
\* precondition with a postcondition false on at most one pair, and the
\* precondition true of every event with a postcondition false on a set of
\* future events.
CheckInputs(ev) ==
    LET all == {ev[k] : k \in 1..Len(ev)}
    IN  ((SUBSET all) \X SinglePairPostconditions(Len(ev)))
            \cup ({all} \X FutureSetPostconditions(Len(ev)))

\* propertyHolds := graph.CheckSafetyProperty(precondition, postcondition)
Check ==
    /\ pc = "reduced"
    /\ pc' = "checked"
    /\ \E in \in CheckInputs(Events) :
           LET r == CheckSafetyProperty(Events, Edges, in[1], in[2])
           IN  /\ pre' = in[1]
               /\ bad' = in[2]
               /\ safe' = r.ok
               /\ evals' = r.evals
               /\ output' = r.output
    /\ UNCHANGED <<graphVars, hbVars, dagVars, genVars, topoVars>>

InitCheck ==
    /\ pc = "reduced"
    /\ \E n \in 0..MaxNodes :
           /\ Events = [k \in 1..n |-> NodeEvent(k - 1)]
           /\ Edges \in {E \in EdgeMaps(n) : Acyclic(E)}
    /\ trace = Events
    /\ Root = ZeroInDegree(Events, Edges)
    /\ totalBefore = TotalEdges(Edges)
    /\ dagNodes = <<>>
    /\ dagEdges = <<>>
    /\ NoClocks
    /\ NoCheck
    /\ NoTopo
    /\ NoGen

NextCheck == Check

SpecCheck == InitCheck /\ [][NextCheck]_vars

(***************************************************************************)
(* The safety check of main on the reduced graph of a trace: the           *)
(* precondition selects the Send events of process A whose own counter has *)
(* a given value (5 in main), the postcondition is                         *)
(* triggerEvent.VClock.HappensBefore(futureEvent.VClock).                  *)
(***************************************************************************)

\* The events on which main's precondition, with counter value k, is true.
MainPrecondition(ev, k) ==
    {ev[n] : n \in {m \in 1..Len(ev) :
                      /\ ev[m].Process = "A"
                      /\ ev[m].Type = "SEND"
                      /\ Get(ev[m].VClock, "A") = k}}

\* The pairs on which main's postcondition is false.
MainPostconditionFails(ev) ==
    {p \in Ids(Len(ev)) \X Ids(Len(ev)) :
        ~HappensBefore(ev[p[1] + 1].VClock, ev[p[2] + 1].VClock)}

CheckMain ==
    /\ pc = "reduced"
    /\ pc' = "checked"
    /\ \E k \in 0..MaxVal :
           LET P == MainPrecondition(Events, k)
               B == MainPostconditionFails(Events)
               r == CheckSafetyProperty(Events, Edges, P, B)
           IN  /\ pre' = P
               /\ bad' = B
               /\ safe' = r.ok
               /\ evals' = r.evals
               /\ output' = r.output
    /\ UNCHANGED <<graphVars, hbVars, dagVars, genVars, topoVars>>

NextSafety == Sort \/ Build \/ Reduce \/ CheckMain

SpecSafety == InitGraph /\ [][NextSafety]_vars

(***************************************************************************)
(* GenerateAsyncTrace: package messages (the oldest pending message is     *)
(* received, events carry a MessageID) and package main (any pending       *)
(* message is received, events carry no MessageID).  One step of the model *)
(* is one draw of the loop in getRandomOtherProcess or the rest of one      *)
(* iteration of the main loop.                                             *)
(***************************************************************************)

\* The elements of a list.
Range(q) == {q[k] : k \in 1..Len(q)}

Max(a, b) == IF a > b THEN a ELSE b

\* clock[p]++
Increment(clock, p) ==
    [k \in (DOMAIN clock) \cup {p} |-> IF k = p THEN Get(clock, k) + 1 ELSE clock[k]]

\* Mutant: Merge copies every counter of other, also a smaller one.
MergeOverwrite(vc, other) ==
    [k \in (DOMAIN vc) \cup (DOMAIN other) |->
        IF k \in DOMAIN other THEN other[k] ELSE vc[k]]

\* vc.Merge(other)
Merge(vc, other) ==
    [k \in (DOMAIN vc) \cup {x \in DOMAIN other : other[x] > Get(vc, x)} |->
        IF k \in DOMAIN other /\ other[k] > Get(vc, k) THEN other[k] ELSE vc[k]]

\* Mutant: the loop copies the counters of the message.
MaxLoopOverwrite(procs, receiverClock, msgVClock) ==
    [k \in (DOMAIN receiverClock) \cup Range(procs) |->
        IF k \in Range(procs) THEN Get(msgVClock, k) ELSE receiverClock[k]]

\* The loop of package messages: receiverClock[p] = max(receiverClock[p],
\* msgVClock[p]) for every p of processes.
MaxLoop(procs, receiverClock, msgVClock) ==
    [k \in (DOMAIN receiverClock) \cup Range(procs) |->
        IF k \in Range(procs) THEN Max(Get(receiverClock, k), Get(msgVClock, k))
        ELSE receiverClock[k]]

\* The list s without its element at position k (1-based).
RemoveAt(s, k) == SubSeq(s, 1, k - 1) \o SubSeq(s, k + 1, Len(s))

\* Mutant: the receiver may be the sender itself.
getRandomAnyProcess(procs, exclude) == Range(procs)

\* The values getRandomOtherProcess can return.
getRandomOtherProcess(procs, exclude) == {p \in Range(procs) : p # exclude}

\* The condition of the main loop.
LoopContinues ==
    IF genImpl = "messages" THEN iter < numEvents ELSE Len(trace) < numEvents

\* getRandomProcessAction returned (p, EventReceive), and the Receive case.
GenReceive ==
    /\ pc = "gen_loop"
    /\ LoopContinues
    /\ \E p \in Range(processList) :
           /\ Len(pendingMessages[p]) > 0
           /\ \E msgIdx \in (IF genImpl = "messages" THEN {1}
                              ELSE 1..Len(pendingMessages[p])) :
                  LET msg == pendingMessages[p][msgIdx]
                      incremented == Increment(processClocks[p], p)
                      receiverClock ==
                          IF genImpl = "messages"
                          THEN MaxLoop(processList, incremented, msg.VClock)
                          ELSE Merge(incremented, msg.VClock)
                      recvEvent ==
                          IF genImpl = "messages"
                          THEN [Type |-> "RECV", Process |-> p, VClock |-> receiverClock,
                                MessageID |-> msg.MessageID]
                          ELSE [Type |-> "RECV", Process |-> p, VClock |-> receiverClock]
                  IN  /\ trace' = Append(trace, recvEvent)
                      /\ pendingMessages' =
                             [pendingMessages EXCEPT ![p] = RemoveAt(@, msgIdx)]
                      /\ processClocks' = [processClocks EXCEPT ![p] = receiverClock]
    /\ iter' = (IF genImpl = "messages" THEN iter + 1 ELSE iter)
    /\ UNCHANGED <<pc, processList, numEvents, genImpl, messageCounter, sender>>
    /\ UNCHANGED <<Events, Edges, Root, totalBefore, hbVars, dagVars, checkVars, topoVars>>

\* getRandomProcessAction returned (p, EventSend): enter getRandomOtherProcess.
GenBeginSend ==
    /\ pc = "gen_loop"
    /\ LoopContinues
    /\ pc' = "gen_other"
    /\ \E p \in Range(processList) : sender' = p
    /\ UNCHANGED <<processList, numEvents, genImpl, iter, processClocks, pendingMessages,
                   messageCounter>>
    /\ UNCHANGED <<graphVars, hbVars, dagVars, checkVars, topoVars>>

\* getRandomOtherProcess returns a receiver, and the rest of the Send case.
GenSend ==
    /\ pc = "gen_other"
    /\ pc' = "gen_loop"
    /\ \E receiverName \in getRandomOtherProcess(processList, sender) :
           LET senderClock == Increment(processClocks[sender], sender)
               sendEvent ==
                   IF genImpl = "messages"
                   THEN [Type |-> "SEND", Process |-> sender, VClock |-> senderClock,
                         MessageID |-> messageCounter]
                   ELSE [Type |-> "SEND", Process |-> sender, VClock |-> senderClock]
           IN  /\ trace' = Append(trace, sendEvent)
               /\ processClocks' = [processClocks EXCEPT ![sender] = senderClock]
               /\ pendingMessages' =
                      [pendingMessages EXCEPT ![receiverName] = Append(@, sendEvent)]
    /\ messageCounter' = (IF genImpl = "messages" THEN messageCounter + 1 ELSE messageCounter)
    /\ iter' = (IF genImpl = "messages" THEN iter + 1 ELSE iter)
    /\ sender' = "none"
    /\ UNCHANGED <<processList, numEvents, genImpl>>
    /\ UNCHANGED <<Events, Edges, Root, totalBefore, hbVars, dagVars, checkVars, topoVars>>

\* A draw of getRandomOtherProcess that yields the excluded process: the
\* loop goes round again with every variable as it was.
GenDrawExcluded ==
    /\ pc = "gen_other"
    /\ \E p \in Range(processList) : p = sender
    /\ UNCHANGED <<pc, graphVars, hbVars, dagVars, checkVars, genVars, topoVars>>

\* return trace
GenReturn ==
    /\ pc = "gen_loop"
    /\ ~LoopContinues
    /\ pc' = "gen_done"
    /\ UNCHANGED <<graphVars, hbVars, dagVars, checkVars, genVars, topoVars>>

\* The process lists tried.
ProcessLists == {<<"A">>, <<"A", "B">>, <<"A", "B", "C">>}

InitGen ==
    /\ pc = "gen_loop"
    /\ processList \in ProcessLists
    /\ numEvents \in 0..MaxGenEvents
    /\ genImpl \in {"messages", "main"}
    /\ iter = 0
    /\ processClocks = [p \in Range(processList) |-> NewVectorClock(Range(processList))]
    /\ pendingMessages = [p \in Range(processList) |-> <<>>]
    /\ messageCounter = 0
    /\ sender = "none"
    /\ NoGraph
    /\ NoClocks
    /\ NoCheck
    /\ NoTopo

NextGen == GenReceive \/ GenBeginSend \/ GenSend \/ GenDrawExcluded \/ GenReturn

SpecGen == InitGen /\ [][NextGen]_vars

\* dag.BuildDAG on the trace messages.GenerateAsyncTrace returned.
GenBuildDAG ==
    /\ pc = "gen_done"
    /\ genImpl = "messages"
    /\ pc' = "gen_dag"
    /\ dagNodes' = BuildDAGOf(trace).Nodes
    /\ dagEdges' = BuildDAGOf(trace).Edges
    /\ UNCHANGED <<graphVars, hbVars, checkVars, genVars, topoVars>>

NextGenDAG == NextGen \/ GenBuildDAG

SpecGenDAG == InitGen /\ [][NextGenDAG]_vars

\* The generator under fair random choices: a draw that can succeed does
\* not fail for ever, and the program keeps running.  GenDrawExcluded
\* changes no variable, so a run that only repeats it makes no progress.
SpecGenFair == InitGen /\ [][NextGen]_vars /\ WF_vars(NextGen)

(***************************************************************************)
(* Claims about HappensBefore (checked under SpecHB).                      *)
(***************************************************************************)

\* The comparison the design prescribes: over the union of the keys, every
\* coordinate <= and at least one coordinate <.
UnionBefore(vc, other) ==
    LET K == (DOMAIN vc) \cup (DOMAIN other)
    IN  /\ \A p \in K : Get(vc, p) <= Get(other, p)
        /\ \E p \in K : Get(vc, p) < Get(other, p)

\* The implementation that produced hbRes.
Impl(vc, other) ==
    IF hbImpl = "types" THEN HappensBeforeTypes(vc, other) ELSE HappensBefore(vc, other)

\* The clocks that differ from vc only by explicit zero entries.
ZeroVariants(vc) == {w \in ClockSet : \A p \in Procs : Get(w, p) = Get(vc, p)}

\* C1: every HappensBefore implementation returns true iff, over the union
\* of the keys of both clocks (absent key = 0), vc <= other everywhere and
\* vc < other somewhere.
C1_UnionOfKeys ==
    pc = "hb_done" => (hbRes.ab <=> UnionBefore(clkA, clkB))

\* C2: HappensBefore(a, b) and HappensBefore(b, a) are never both true, and
\* HappensBefore(c, c) is false, for both implementations and any key sets.
C2_IrreflexiveAntisymmetric ==
    pc = "hb_done" => (~(hbRes.ab /\ hbRes.ba) /\ ~hbRes.aa)

C2_Witness ==
    /\ pc = "hb_done"
    /\ hbImpl = "types"
    /\ hbRes.ab
    /\ DOMAIN clkA # DOMAIN clkB
    /\ DOMAIN clkA # {}

\* C3: if HappensBefore(a, b) and HappensBefore(b, c) then HappensBefore(a, c),
\* for both implementations and any key sets.
C3_Transitive ==
    pc = "hb_done" => ((hbRes.ab /\ hbRes.bc) => hbRes.ac)

C3_Witness ==
    /\ pc = "hb_done"
    /\ hbImpl = "main"
    /\ hbRes.ab
    /\ hbRes.bc
    /\ DOMAIN clkA # DOMAIN clkB
    /\ DOMAIN clkB # DOMAIN clkC

\* C4: the result of HappensBefore(a, b) does not change when explicit zero
\* entries are added to or removed from either operand; {A:1} is before
\* {A:2, B:0}, and {A:1, C:1} is not before {A:1}.
C4_ZeroEntriesIrrelevant ==
    pc = "hb_done" =>
        /\ \A a2 \in ZeroVariants(clkA), b2 \in ZeroVariants(clkB) :
               Impl(a2, b2) = hbRes.ab
        /\ Impl("A" :> 1, ("A" :> 2) @@ ("B" :> 0))
        /\ ~Impl(("A" :> 1) @@ ("C" :> 1), "A" :> 1)

\* C5: types.VectorClock.HappensBefore(vc, other) is false whenever vc and
\* other agree on every key of vc, whatever other holds on further keys
\* ({A:1} is not before {A:1, B:100}).
C5_EqualOnOwnKeysIsFalse ==
    /\ (pc = "hb_done" /\ hbImpl = "types"
            /\ \A p \in DOMAIN clkA : clkA[p] = Get(clkB, p))
        => ~hbRes.ab
    /\ (pc = "hb_done" /\ hbImpl = "types")
        => ~HappensBeforeTypes("A" :> 1, ("A" :> 1) @@ ("B" :> 100))

C5_Witness ==
    /\ pc = "hb_done"
    /\ hbImpl = "types"
    /\ DOMAIN clkA # {}
    /\ \A p \in DOMAIN clkA : clkA[p] = Get(clkB, p)
    /\ \E q \in (DOMAIN clkB) \ (DOMAIN clkA) : clkB[q] > 0
    /\ ~hbRes.ab

(***************************************************************************)
(* Claims about NewCausalGraph and ReduceTransitive (checked under         *)
(* SpecGraph).                                                             *)
(***************************************************************************)

\* The number of occurrences of v in the list es.
Occurrences(es, v) == Cardinality({k \in 1..Len(es) : es[k] = v})

\* Event i of the graph happens-before event j, by the clocks.
Before(i, j) == HappensBefore(Events[i + 1].VClock, Events[j + 1].VClock)

\* C6: for a trace of n events in any order, NewCausalGraph returns Edges
\* with exactly the keys 0..n-1, and j occurs in Edges[i] exactly once when
\* events[i] happens-before events[j] and not at all otherwise.
C6_EdgesAreHappensBefore ==
    pc = "built" =>
        /\ Events = trace
        /\ DOMAIN Edges = Ids(Len(trace))
        /\ \A i, j \in Ids(Len(trace)) :
               Occurrences(Edges[i], j) = (IF Before(i, j) THEN 1 ELSE 0)

C6_Witness ==
    /\ pc = "built"
    /\ \E i, j \in DOMAIN Edges : i > j /\ j \in Succ(Edges, i)
    /\ \E i, j \in DOMAIN Edges :
           /\ i # j
           /\ Events[i + 1].VClock = Events[j + 1].VClock
           /\ j \notin Succ(Edges, i)

\* C8: the graph built by NewCausalGraph from any trace of non-negative
\* clocks has no cycle, before and after ReduceTransitive.
C8_Acyclic ==
    pc \in {"built", "reduced"} => Acyclic(Edges)

C8_Witness ==
    /\ pc = "reduced"
    /\ \E u, v, w \in DOMAIN Edges :
           /\ v \in Succ(Edges, u)
           /\ w \in Succ(Edges, v)
           /\ u > v

CausallyOrdered(tr) ==
    \A i, j \in Ids(Len(tr)) :
        HappensBefore(tr[i + 1].VClock, tr[j + 1].VClock) => i < j

C7_BothDirections ==
    /\ pc = "old_built" =>
           \A i, j \in Ids(Len(trace)) :
               (i # j /\ StrictlyBefore(trace[i + 1].VClock, trace[j + 1].VClock))
                   => j \in Succ(Edges, i)
    /\ pc = "dag_built" =>
           \A i, j \in Ids(Len(trace)) :
               (i # j /\ HappensBeforeTypes(trace[i + 1].VClock, trace[j + 1].VClock))
                   => \E k \in 1..Len(dagEdges) :
                          dagEdges[k] = [From |-> trace[i + 1], To |-> trace[j + 1]]

(***************************************************************************)
(* Claims about ReduceTransitive on any acyclic graph (checked under       *)
(* SpecReduce).                                                            *)
(***************************************************************************)

\* C9: ReduceTransitive preserves reachability exactly: for every acyclic
\* graph and all u, v, v is reachable from u after the reduction iff it was
\* reachable before.
C9_ReachabilityPreserved ==
    [][(pc' \in {"reduced", "old_reduced"} /\ pc \in {"built", "old_built"})
          => /\ DOMAIN Edges' = DOMAIN Edges
             /\ \A u \in DOMAIN Edges : ReachFrom(Edges', u) = ReachFrom(Edges, u)]_vars

C9_Witness ==
    /\ pc \in {"reduced", "old_reduced"}
    /\ TotalEdges(Edges) < totalBefore
    /\ \E u \in DOMAIN Edges : \E v \in ReachFrom(Edges, u) : v \notin Succ(Edges, u)

(***************************************************************************)
(* Claims about the reduced graph of a sorted trace (SpecGraph).           *)
(***************************************************************************)

\* The immediate successors of i: i happens-before j and no event lies
\* strictly between them.
ImmediateSuccessors(i) ==
    {j \in Ids(Len(Events)) :
        Before(i, j) /\ ~\E w \in Ids(Len(Events)) : Before(i, w) /\ Before(w, j)}

\* The ids of S as an ascending list.
Ascending(S, n) == SelectSeq(IdSeq(n), LAMBDA j : j \in S)

\* Every earlier event of the trace happens-before every later one.
TotalChain(tr) ==
    \A i, j \in Ids(Len(tr)) :
        i < j => HappensBefore(tr[i + 1].VClock, tr[j + 1].VClock)

\* C11: for every trace whose order is consistent with causality (as after
\* sortTraceByVClock), NewCausalGraph followed by ReduceTransitive leaves in
\* Edges[i] exactly the immediate successors of i, listed in ascending id
\* order; a totally ordered chain of n events reduces to the edges
\* i -> i+1 only.
C11_ImmediateSuccessorsAscending ==
    /\ pc = "sorted" => CausallyOrdered(trace)
    /\ (pc = "reduced" /\ CausallyOrdered(trace)) =>
           /\ \A i \in DOMAIN Edges :
                  Edges[i] = Ascending(ImmediateSuccessors(i), Len(Events))
           /\ TotalChain(trace) =>
                  \A i \in DOMAIN Edges :
                      Edges[i] = (IF i + 1 < Len(Events) THEN <<i + 1>> ELSE <<>>)

\* A reduced chain of three events whose built graph held the edge 0 -> 2.
C11_Witness ==
    /\ pc = "reduced"
    /\ Len(trace) = 3
    /\ TotalChain(trace)
    /\ totalBefore = 3
    /\ Edges[0] = <<1>>

(***************************************************************************)
(* Claims about repeated reduction and edge counts.                        *)
(***************************************************************************)

\* C12: ReduceTransitive is idempotent: for every acyclic graph, whatever
\* the order of its adjacency lists, a second run on the reduced graph
\* leaves every list Edges[u] unchanged, element for element.
C12_Idempotent ==
    [][(pc \in {"reduced", "old_reduced"} /\ pc' \in {"reduced_twice", "old_reduced_twice"})
          => \A u \in DOMAIN Edges : Edges'[u] = Edges[u]]_vars

\* A second run on a graph from which the first run removed an edge.
C12_Witness ==
    /\ pc = "reduced_twice"
    /\ TotalEdges(Edges) < totalBefore
    /\ TotalEdges(Edges) >= 2

\* The built graph holds an edge u -> v that a longer path also implies:
\* NewCausalGraph adds an edge for every happens-before pair, so this is an
\* event strictly between two others.
HasTransitiveEdge ==
    \E u, w, v \in Ids(Len(Events)) : Before(u, w) /\ Before(w, v)

C14_CycleIsFatal ==
    [][(pc = "built" /\ Len(topoSort(Events, Edges)) < Len(Events))
          => pc' # "reduced"]_vars

(***************************************************************************)
(* Claims about CheckSafetyProperty (SpecCheck).                           *)
(***************************************************************************)

\* The ids of the trigger events.
Triggers == {i \in Ids(Len(Events)) : Events[i + 1] \in pre}

\* C15: CheckSafetyProperty returns false if and only if some event i
\* satisfies the precondition and some event j reachable from i by one or
\* more edges makes the postcondition false; otherwise, also when no event
\* satisfies the precondition, it returns true.  The violation is reported
\* through the boolean result: the call always returns.
C15_FalseIffViolation ==
    pc = "checked" =>
        /\ safe \in BOOLEAN
        /\ (safe = FALSE) <=>
               \E i \in Triggers : \E j \in ReachFrom(Edges, i) : <<i, j>> \in bad

\* A violation found on a descendant that is not a direct successor.
C15_Witness ==
    /\ pc = "checked"
    /\ safe = FALSE
    /\ \E i \in Triggers : \E j \in ReachFrom(Edges, i) :
           <<i, j>> \in bad /\ j \notin Succ(Edges, i)

\* The number of postcondition calls made on the pair <<i, j>>.
EvalCount(i, j) == Cardinality({k \in 1..Len(evals) : evals[k] = <<i, j>>})

\* C16: in a run of CheckSafetyProperty that finds no violation, for every
\* trigger event i the postcondition is evaluated exactly once for each
\* event reachable from i, also when it is reachable along several paths,
\* and never for an event not reachable from i, the trigger itself
\* included; the visited set is fresh for each trigger.
C16_EvaluatedOncePerReachable ==
    (pc = "checked" /\ safe) =>
        \A i, j \in Ids(Len(Events)) :
            EvalCount(i, j) =
                (IF i \in Triggers /\ j \in ReachFrom(Edges, i) THEN 1 ELSE 0)

\* Two triggers share a descendant that one of them reaches along two paths.
C16_Witness ==
    /\ pc = "checked"
    /\ safe
    /\ \E i, k \in Triggers : \E j \in ReachFrom(Edges, i) \cap ReachFrom(Edges, k) :
           /\ i # k
           /\ \E a, b \in Succ(Edges, i) :
                  /\ a # b
                  /\ j \in ({a} \cup ReachFrom(Edges, a))
                  /\ j \in ({b} \cup ReachFrom(Edges, b))

C18_ReachableHappensAfter ==
    pc = "checked" =>
        /\ safe = TRUE
        /\ \A i \in Ids(Len(Events)) : \A j \in ReachFrom(Edges, i) :
               /\ HappensBefore(Events[i + 1].VClock, Events[j + 1].VClock)
               /\ <<i, j>> \notin bad

\* A check with a trigger whose future holds an event two edges away.
C18_Witness ==
    /\ pc = "checked"
    /\ safe
    /\ Len(evals) >= 2
    /\ \E i \in Triggers : \E j \in ReachFrom(Edges, i) : j \notin Succ(Edges, i)

(***************************************************************************)
(* Claims about GenerateAsyncTrace (SpecGen).                              *)
(***************************************************************************)

\* The clock of the last event of process p among the first n events of tr;
\* the zero clock when p has none.
RECURSIVE PrevClock(_, _, _)
PrevClock(tr, n, p) ==
    IF n = 0 THEN NewVectorClock(Range(processList))
    ELSE IF tr[n].Process = p THEN tr[n].VClock
    ELSE PrevClock(tr, n - 1, p)

\* The step appends one event to the trace.
AppendsEvent ==
    /\ pc \in {"gen_loop", "gen_other"}
    /\ Len(trace') = Len(trace) + 1

\* C19: each Send event's clock equals the sending process's previous clock
\* with only its own coordinate incremented by one; each Receive event's
\* clock equals the elementwise maximum of the receiving process's previous
\* clock and the matched Send event's clock, with the receiver's own
\* coordinate then incremented by one.
C19_ClockUpdates ==
    [][AppendsEvent =>
          LET e == trace'[Len(trace')]
              p == e.Process
              prev == PrevClock(trace, Len(trace), p)
          IN  /\ e.Type = "SEND" =>
                     e.VClock = [k \in Range(processList) |->
                                    IF k = p THEN prev[k] + 1 ELSE prev[k]]
              /\ e.Type = "RECV" =>
                     \E n \in 1..Len(pendingMessages[p]) :
                         LET m == pendingMessages[p][n]
                         IN  /\ pendingMessages'[p] = RemoveAt(pendingMessages[p], n)
                             /\ m.Type = "SEND"
                             /\ m \in Range(trace)
                             /\ e.VClock = [k \in Range(processList) |->
                                               Max(prev[k], m.VClock[k])
                                                   + (IF k = p THEN 1 ELSE 0)]]_vars

\* A process receives a message that already carries one of its own ticks:
\* it sent, the other process received and sent back, and it received.
C19_Witness ==
    /\ pc = "gen_done"
    /\ Len(trace) = 4
    /\ trace[1].Type = "SEND" /\ trace[2].Type = "RECV"
    /\ trace[3].Type = "SEND" /\ trace[4].Type = "RECV"
    /\ trace[2].Process = trace[3].Process
    /\ trace[4].Process = trace[1].Process
    /\ trace[3].VClock[trace[1].Process] = 1
    /\ trace[4].VClock[trace[1].Process] = 2

\* The positions of the Send events carrying the MessageID id.
SendsOf(id) ==
    {s \in 1..Len(trace) : trace[s].Type = "SEND" /\ trace[s].MessageID = id}

\* The state part of C20.
MatchedSends ==
    (genImpl = "messages") =>
        /\ \A k \in 1..Len(trace) :
               trace[k].Type = "RECV" =>
                   /\ Cardinality(SendsOf(trace[k].MessageID)) = 1
                   /\ \A s \in SendsOf(trace[k].MessageID) :
                          s < k /\ trace[s].Process # trace[k].Process
        /\ \A k1, k2 \in 1..Len(trace) :
               (k1 # k2 /\ trace[k1].Type = "RECV" /\ trace[k2].Type = "RECV")
                   => trace[k1].MessageID # trace[k2].MessageID
        /\ \A k1, k2 \in 1..Len(trace) :
               (k1 < k2 /\ trace[k1].Type = "SEND" /\ trace[k2].Type = "SEND"
                   /\ trace[k1].Process = trace[k2].Process)
                   => trace[k1].VClock[trace[k1].Process]
                          < trace[k2].VClock[trace[k2].Process]

\* The step part of C20: a Send is queued for exactly one process, which is
\* not its sender, and a Receive on p takes a message queued for p.
AddressedToReceiver ==
    (AppendsEvent /\ genImpl = "messages") =>
        LET e == trace'[Len(trace')]
        IN  /\ e.Type = "SEND" =>
                   \E q \in Range(processList) \ {e.Process} :
                       pendingMessages' =
                           [pendingMessages EXCEPT ![q] = Append(@, e)]
            /\ e.Type = "RECV" =>
                   /\ \E n \in 1..Len(pendingMessages[e.Process]) :
                          /\ pendingMessages[e.Process][n].MessageID = e.MessageID
                          /\ pendingMessages' =
                                 [pendingMessages EXCEPT ![e.Process] = RemoveAt(@, n)]

\* C20: in every trace produced by messages.GenerateAsyncTrace, every
\* Receive event on process p corresponds to exactly one Send event that
\* appears earlier in the trace, was issued by a different process and
\* addressed to p, and carries the same MessageID; no Send is received more
\* than once, and on each process the Send events have strictly increasing
\* own coordinates.
C20_ReceiveMatchesOneEarlierSend ==
    [](MatchedSends) /\ [][AddressedToReceiver]_vars

\* A finished trace of package messages in which one process received two
\* messages, sent by two different processes.
C20_Witness ==
    /\ pc = "gen_done"
    /\ genImpl = "messages"
    /\ \E k1, k2 \in 1..Len(trace) :
           /\ k1 < k2
           /\ trace[k1].Type = "RECV" /\ trace[k2].Type = "RECV"
           /\ trace[k1].Process = trace[k2].Process
           /\ \E s1 \in SendsOf(trace[k1].MessageID) : \E s2 \in SendsOf(trace[k2].MessageID) :
                  trace[s1].Process # trace[s2].Process

(***************************************************************************)
(* Claim about topoSort (SpecTopo).                                        *)
(***************************************************************************)

\* The remaining in-degree of v: the occurrences of v in the adjacency
\* lists of the nodes not yet appended to order.
Remaining(v) ==
    Cardinality({p \in UNION {{<<u, k>> : k \in 1..Len(Edges[u])} :
                                 u \in (DOMAIN Edges) \ Range(topoOrder)} :
                    Edges[p[1]][p[2]] = v})

\* The position of id x in the list s.
PositionIn(s, x) == CHOOSE k \in 1..Len(s) : s[k] = x

\* C21: for every acyclic graph, topoSort returns a sequence that contains
\* every node id exactly once and in which u precedes v for every edge
\* u -> v; a node is enqueued only when its remaining in-degree reaches 0.
C21_TopologicalOrder ==
    /\ pc \in {"topo_loop", "old_topo_loop", "topo_done", "old_topo_done"} =>
           /\ \A v \in DOMAIN Edges : topoIndeg[v] = Remaining(v)
           /\ \A v \in DOMAIN Edges :
                  Occurrences(topoQ, v) + Occurrences(topoOrder, v) =
                      (IF Remaining(v) = 0 THEN 1 ELSE 0)
    /\ pc \in {"topo_done", "old_topo_done"} =>
           /\ \A v \in DOMAIN Edges : Occurrences(topoOrder, v) = 1
           /\ Len(topoOrder) = Len(Events)
           /\ \A u \in DOMAIN Edges : \A v \in Succ(Edges, u) :
                  PositionIn(topoOrder, u) < PositionIn(topoOrder, v)
           /\ pc = "topo_done" => topoOrder = topoSort(Events, Edges)

\* A finished sort of a graph in which a node with two predecessors was
\* enqueued by the second of them only.
C21_Witness ==
    /\ pc \in {"topo_done", "old_topo_done"}
    /\ \E u, w, v \in DOMAIN Edges :
           /\ u # w
           /\ v \in Succ(Edges, u) /\ v \in Succ(Edges, w)
           /\ w \in Succ(Edges, u)

\* C22: for every list of at least one process identifier and every
\* numEvents >= 0, GenerateAsyncTrace terminates under fair random choices
\* and returns a trace of exactly numEvents events.
C22_Terminates ==
    <>(pc = "gen_done" /\ Len(trace) = numEvents)

(***************************************************************************)
(* Claim about the order of a generated trace (SpecGenDAG).                *)
(***************************************************************************)

\* C23: in every trace produced by messages.GenerateAsyncTrace the trace
\* order is a linear extension of happens-before: for all positions i < j,
\* events[j].VClock never HappensBefore events[i].VClock, and no two events
\* carry identical clocks.  Consequently the forward-only pair scan of
\* dag.BuildDAG finds every causally ordered pair of such a trace.
C23_TraceOrderExtendsHappensBefore ==
    /\ (genImpl = "messages") =>
           \A i, j \in 1..Len(trace) :
               i < j =>
                   /\ ~HappensBeforeTypes(trace[j].VClock, trace[i].VClock)
                   /\ ~UnionBefore(trace[j].VClock, trace[i].VClock)
                   /\ trace[i].VClock # trace[j].VClock
    /\ pc = "gen_dag" =>
           \A i, j \in 1..Len(trace) :
               (HappensBeforeTypes(trace[i].VClock, trace[j].VClock)
                    \/ UnionBefore(trace[i].VClock, trace[j].VClock))
                   => \E n \in 1..Len(dagEdges) :
                          dagEdges[n] = [From |-> trace[i], To |-> trace[j]]

\* A DAG built from a generated trace with an edge between two processes
\* and a pair of concurrent events.
C23_Witness ==
    /\ pc = "gen_dag"
    /\ \E n \in 1..Len(dagEdges) : dagEdges[n].From.Process # dagEdges[n].To.Process
    /\ \E i, j \in 1..Len(trace) :
           /\ i < j
           /\ ~HappensBeforeTypes(trace[i].VClock, trace[j].VClock)

(***************************************************************************)
(* Claim about the two HappensBefore implementations (SpecHB).             *)
(***************************************************************************)

\* The result the other implementation gives on (vc, other).
OtherImpl(vc, other) ==
    IF hbImpl = "types" THEN HappensBefore(vc, other) ELSE HappensBeforeTypes(vc, other)

\* Every key of other is also a key of vc.
KeysCovered(vc, other) == (DOMAIN other) \subseteq (DOMAIN vc)

\* C24: types.VectorClock.HappensBefore (iterating only vc's keys) and the
\* union-of-keys HappensBefore of package main return the same result for
\* every pair of non-negative clocks in which every key of other is also a
\* key of vc; they can differ only when other has a key that vc lacks.
C24_ImplementationsAgree ==
    pc = "hb_done" =>
        /\ KeysCovered(clkA, clkB) => hbRes.ab = OtherImpl(clkA, clkB)
        /\ KeysCovered(clkB, clkA) => hbRes.ba = OtherImpl(clkB, clkA)
        /\ KeysCovered(clkB, clkC) => hbRes.bc = OtherImpl(clkB, clkC)
        /\ KeysCovered(clkA, clkC) => hbRes.ac = OtherImpl(clkA, clkC)
        /\ hbRes.aa = OtherImpl(clkA, clkA)

\* types.HappensBefore returned true on a pair in which vc has a key that
\* other lacks.
C24_Witness ==
    /\ pc = "hb_done"
    /\ hbImpl = "types"
    /\ KeysCovered(clkA, clkB)
    /\ DOMAIN clkA # DOMAIN clkB
    /\ hbRes.ab

====
